---- MODULE Spec2Model ----
(***************************************************************************)
(* A model of filtering.py: zero-padded cross-correlation, the filters     *)
(* built on it, the hybrid-image composer and the Laplacian pyramid.       *)
(*                                                                         *)
(* An ndarray is a record [dtype, shape, exp, data]:                       *)
(*   dtype  "uint8" or "float64"                                           *)
(*   shape  <<H, W>> (rank 2) or <<H, W, C>> (rank 3)                      *)
(*   data   the samples, row-major (C order), as a sequence of integers    *)
(*   exp    the samples' common binary exponent: sample k has the value    *)
(*          data[k] / 2^exp.  A uint8 array has exp = 0 and data in        *)
(*          0..255.  A float64 array is kept in lowest terms (Norm), so    *)
(*          that two arrays with equal samples are equal records.  Every   *)
(*          kernel of the program is dyadic, so float arithmetic is exact  *)
(*          here; rounding of the last bit is not modelled, nor is a       *)
(*          float32 input, which differs from float64 in rounding only.    *)
(* ndarrays live in `heap`; the program's names hold indices into it, so   *)
(* that two names bound to one buffer are one index.                       *)
(***************************************************************************)
EXTENDS Integers, Sequences

VARIABLES
    pc,        \* position of the running call
    raised,    \* the exception that ended the call, or "none"
    heap,      \* sequence of ndarrays: heap[id] is the buffer `id`
    img,       \* id of the caller's image
    orig,      \* the samples of the caller's image when the call was made
    kernel,    \* the kernel argument of the filter call (blur_1d elsewhere)
    out_img,   \* id of the filter's result (0: none yet)
    levels,    \* construct_laplacian's `levels`
    gau_pyr,   \* construct_laplacian's gau_pyr: sequence of ids
    lap_pyr,   \* construct_laplacian's lap_pyr: sequence of ids
    currLev,   \* loop variable of the running loop
    pyr,       \* the caller's pyramid: the list construct_laplacian returned
    weights,   \* reconstruct_laplacian's `weights`: None, or a list of floats in halves
    copy_pyr,  \* reconstruct_laplacian's copy_pyr: sequence of ids
    ret,       \* id of the image reconstruct_laplacian returned (0: none yet)
    before,    \* the samples of the caller's pyramid when reconstruct_laplacian was called
    written,   \* whether the caller has written into a returned level
    hyb        \* create_hybrid_image's frame

vars == <<pc, raised, heap, img, orig, kernel, out_img, levels, gau_pyr, lap_pyr,
          currLev, pyr, weights, copy_pyr, ret, before, written, hyb>>

(***************************************************************************)
(* Bounds of the model.                                                    *)
(***************************************************************************)
\* images are drawn from the patterns 0..MaxSeed
MaxSeed == 1
\* kernels are drawn from the patterns 0..MaxKSeed
MaxKSeed == 1
\* a weight is one of 0/2, 1/2, .., MaxWeight/2
MaxWeight == 3

(***************************************************************************)
(* Arithmetic helpers.                                                     *)
(***************************************************************************)
RECURSIVE Pow2(_)
Pow2(n) == IF n = 0 THEN 1 ELSE 2 * Pow2(n - 1)

RECURSIVE SumSeq(_, _)
\* np.sum over the first n entries of a sequence
SumSeq(s, n) == IF n = 0 THEN 0 ELSE s[n] + SumSeq(s, n - 1)

Rank(a) == Len(a.shape)
Height(a) == a.shape[1]
Width(a) == a.shape[2]
Chans(a) == IF Len(a.shape) = 3 THEN a.shape[3] ELSE 1
Size(shape) == IF Len(shape) = 3 THEN shape[1] * shape[2] * shape[3]
               ELSE shape[1] * shape[2]

\* a[i, j, c] (a[i, j] for rank 2, with c = 0), indices from 0
At(a, i, j, c) == a.data[(((i * Width(a)) + j) * Chans(a)) + c + 1]

\* the indices [i, j, c] of the k-th sample (k from 1) of an array of the given shape
RowOf(k, shape) == (k - 1) \div (shape[2] * (IF Len(shape) = 3 THEN shape[3] ELSE 1))
ColOf(k, shape) == ((k - 1) \div (IF Len(shape) = 3 THEN shape[3] ELSE 1)) % shape[2]
ChanOf(k, shape) == (k - 1) % (IF Len(shape) = 3 THEN shape[3] ELSE 1)

\* the array of the given dtype, shape, exponent and samples
MkArr(dtype, shape, e, data) == [dtype |-> dtype, shape |-> shape, exp |-> e, data |-> data]

RECURSIVE Norm(_)
\* a float64 array in lowest terms: the least exponent that keeps every sample an integer
Norm(a) ==
    IF a.exp > 0 /\ \A k \in 1..Len(a.data) : a.data[k] % 2 = 0
    THEN Norm([a EXCEPT !.exp = a.exp - 1,
                        !.data = [k \in 1..Len(a.data) |-> a.data[k] \div 2]])
    ELSE a

\* the samples of `a` in units of 2^-e, for e >= a.exp
Lift(a, e) == [k \in 1..Len(a.data) |-> a.data[k] * Pow2(e - a.exp)]

Max(x, y) == IF x >= y THEN x ELSE y

\* a float64 -> uint8 cast (C truncation) of a sample m / 2^e in [0, 256)
CastU8(m, e) == m \div Pow2(e)

\* arr.astype(dtype) as numpy's assignment into a buffer of that dtype does it
AsType(a, dtype) ==
    IF dtype = a.dtype THEN a
    ELSE IF dtype = "uint8"
    THEN [a EXCEPT !.dtype = "uint8", !.exp = 0,
                   !.data = [k \in 1..Len(a.data) |-> CastU8(a.data[k], a.exp)]]
    ELSE [a EXCEPT !.dtype = "float64"]

(***************************************************************************)
(* cross_correlation_2d and the filters built on it.                       *)
(***************************************************************************)
\* np.pad(img, ((pm,pm),(pn,pn)[,(0,0)]), mode='constant')
np_pad(a, pm, pn) ==
    LET h == Height(a)
        w == Width(a)
        shape == IF Rank(a) = 3 THEN <<h + 2 * pm, w + 2 * pn, a.shape[3]>>
                 ELSE <<h + 2 * pm, w + 2 * pn>>
        px(i, j, c) == IF i >= pm /\ i < pm + h /\ j >= pn /\ j < pn + w
                       THEN At(a, i - pm, j - pn, c) ELSE 0
    IN MkArr(a.dtype, shape, a.exp,
             [s \in 1..Size(shape) |->
                 px(RowOf(s, shape), ColOf(s, shape), ChanOf(s, shape))])

\* np.sum(kernel * img_pad[h:(h+full_m), w:(w+full_n), c])
WindowSum(k, img_pad, h, w, c) ==
    LET full_m == k.shape[1]
        full_n == k.shape[2]
        prod == [t \in 1..(full_m * full_n) |->
                   k.data[t] * At(img_pad, h + ((t - 1) \div full_n), w + ((t - 1) % full_n), c)]
    IN SumSeq(prod, full_m * full_n)

\* out_img[h,w,1] does not exist for a rank-3 image of fewer than three channels
CorrRaises(a) == Rank(a) = 3 /\ a.shape[3] < 3

\* variant: the kernel flipped along both axes, a convolution
CorrFlipped(a, k) ==
    LET half_m == k.shape[1] \div 2
        half_n == k.shape[2] \div 2
        img_pad == np_pad(a, half_m, half_n)
        n == Len(k.data)
        kf == [k EXCEPT !.data = [t \in 1..n |-> k.data[n + 1 - t]]]
        px(h, w, c) == IF c > 2 THEN 0 ELSE WindowSum(kf, img_pad, h, w, c)
    IN Norm(MkArr("float64", a.shape, a.exp + k.exp,
             [s \in 1..Size(a.shape) |->
                 px(RowOf(s, a.shape), ColOf(s, a.shape), ChanOf(s, a.shape))]))

\* cross_correlation_2d(img, kernel), for an image it does not raise on: the
\* rank-3 branch writes channels 0, 1 and 2 and leaves any other at zero
cross_correlation_2d(a, k) ==
    LET half_m == k.shape[1] \div 2
        half_n == k.shape[2] \div 2
        img_pad == np_pad(a, half_m, half_n)
        px(h, w, c) == IF c > 2 THEN 0 ELSE WindowSum(k, img_pad, h, w, c)
    IN Norm(MkArr("float64", a.shape, a.exp + k.exp,
             [s \in 1..Size(a.shape) |->
                 px(RowOf(s, a.shape), ColOf(s, a.shape), ChanOf(s, a.shape))]))

\* kernel[::-1, ::-1]
Flip(k) == LET n == Len(k.data)
           IN [k EXCEPT !.data = [t \in 1..n |-> k.data[n + 1 - t]]]

convolve_2d(a, k) == cross_correlation_2d(a, Flip(k))

\* kernel1d.T
Transpose(k) ==
    LET m == k.shape[1]
        n == k.shape[2]
    IN [k EXCEPT !.shape = <<n, m>>,
                 !.data = [t \in 1..(m * n) |->
                             k.data[(((t - 1) % m) * n) + ((t - 1) \div m) + 1]]]

\* variant: the row kernel applied twice, the transpose forgotten
SeparableNoTranspose(a, k) == cross_correlation_2d(cross_correlation_2d(a, k), k)

separable_filter(a, k) == cross_correlation_2d(cross_correlation_2d(a, k), Transpose(k))

(***************************************************************************)
(* The inputs of the model.                                                *)
(***************************************************************************)
\* sample [i,j,c] of the uint8 test pattern `seed`: below 128, so that a sample
\* carried to the exponent of the fourth level (2^-24) fits a 32-bit integer
SampleU8(seed, i, j, c) == ((seed * 53) + (11 * i * i) + (7 * j) + (5 * c) + (3 * i * j) + 90) % 128

\* sample [i,j,c] of the float test pattern `seed`, in halves: -3.5 .. 3.5
SampleF(seed, i, j, c) == (((seed * 5) + (3 * i) + (2 * j * j) + c + (i * j)) % 15) - 7

MkImage(dtype, shape, seed) ==
    LET u(i, j, c) == SampleU8(seed, i, j, c)
        f(i, j, c) == SampleF(seed, i, j, c)
    IN IF dtype = "uint8"
       THEN MkArr("uint8", shape, 0,
             [s \in 1..Size(shape) |->
                 u(RowOf(s, shape), ColOf(s, shape), ChanOf(s, shape))])
       ELSE Norm(MkArr("float64", shape, 1,
             [s \in 1..Size(shape) |->
                 f(RowOf(s, shape), ColOf(s, shape), ChanOf(s, shape))]))

DTypes == {"uint8", "float64"}

\* the images handed to the filters: rank 2, and rank 3 with 1, 3 and 4 channels
FilterShapes == {<<1, 1>>, <<2, 3>>, <<3, 3>>, <<1, 2, 3>>, <<2, 2, 3>>, <<3, 2, 3>>,
                 <<2, 2, 1>>, <<2, 2, 4>>}

\* the kernels handed to the filters: both dimensions odd
KernelShapes == {<<1, 1>>, <<1, 3>>, <<3, 1>>, <<3, 3>>, <<1, 5>>, <<3, 5>>}

MkKernel(shape, seed) ==
    [dtype |-> "float64", shape |-> shape, exp |-> seed % 2,
     data |-> [t \in 1..(shape[1] * shape[2]) |-> (((seed * 3) + (t * t) + (2 * t)) % 7) - 2]]

\* np.array([0.0625, 0.25, 0.375, 0.25, 0.0625]).reshape((1, 5))
blur_1d == [dtype |-> "float64", shape |-> <<1, 5>>, exp |-> 4, data |-> <<1, 4, 6, 4, 1>>]

Kernels == {MkKernel(sh, s) : sh \in KernelShapes, s \in 0..MaxKSeed} \cup {blur_1d}

NoFrame == [pc |-> "none"]

\* weights=None: the empty list stands for it (a pyramid has at least one level)
None == <<>>

NoPyramid == [ids |-> <<>>, samples |-> <<>>]

(***************************************************************************)
(* SpecFilter: one call of a filter on an image and a kernel.              *)
(***************************************************************************)
InitFilter ==
    /\ pc = "start"
    /\ raised = "none"
    /\ \E dt \in DTypes, sh \in FilterShapes, s \in 0..MaxSeed :
          heap = <<MkImage(dt, sh, s)>>
    /\ img = 1
    /\ orig = heap[1]
    /\ kernel \in Kernels
    /\ out_img = 0
    /\ levels = 0
    /\ gau_pyr = <<>>
    /\ lap_pyr = <<>>
    /\ currLev = 0
    /\ pyr = <<>>
    /\ weights = None
    /\ copy_pyr = <<>>
    /\ ret = 0
    /\ before = NoPyramid
    /\ written = FALSE
    /\ hyb = NoFrame

\* the call returns `a`, or raises IndexError
FilterReturn(done, fails, a) ==
    /\ IF fails
       THEN /\ pc' = "raised"
            /\ raised' = "IndexError"
            /\ UNCHANGED <<heap, out_img>>
       ELSE /\ pc' = done
            /\ heap' = Append(heap, a)
            /\ out_img' = Len(heap) + 1
            /\ UNCHANGED raised
    /\ UNCHANGED <<img, orig, kernel, levels, gau_pyr, lap_pyr, currLev, pyr, weights,
                   copy_pyr, ret, before, written, hyb>>

CallCorrelation ==
    /\ pc = "start"
    /\ FilterReturn("correlated", CorrRaises(heap[img]),
                    cross_correlation_2d(heap[img], kernel))

CallConvolve ==
    /\ pc = "start"
    /\ FilterReturn("convolved", CorrRaises(heap[img]), convolve_2d(heap[img], kernel))

CallSeparable ==
    /\ pc = "start"
    /\ FilterReturn("separated", CorrRaises(heap[img]), separable_filter(heap[img], kernel))

NextFilter == CallCorrelation \/ CallConvolve \/ CallSeparable

SpecFilter == InitFilter /\ [][NextFilter]_vars

(***************************************************************************)
(* The Laplacian pyramid: array arithmetic as numpy does it.               *)
(***************************************************************************)
\* np.zeros(shape, dtype), at the exponent e
Zeros(dtype, shape, e) ==
    [dtype |-> dtype, shape |-> shape, exp |-> e, data |-> [k \in 1..Size(shape) |-> 0]]

\* upImg[io::2, jo::2, :] = currImg : the samples of currImg, cast to upImg's dtype,
\* written at the odd/even phase (io, jo); a one-channel currImg is broadcast
PhaseAssign(upImg, io, jo, currImg) ==
    LET src == AsType(currImg, upImg.dtype)
        px(i, j, c) == IF i % 2 = io /\ j % 2 = jo
                       THEN At(src, i \div 2, j \div 2, IF Chans(src) = 1 THEN 0 ELSE c)
                       ELSE At(upImg, i, j, c)
    IN MkArr(upImg.dtype, upImg.shape, upImg.exp,
             [s \in 1..Size(upImg.shape) |->
                 px(RowOf(s, upImg.shape), ColOf(s, upImg.shape), ChanOf(s, upImg.shape))])

\* the assignment raises ValueError unless currImg's channels broadcast to three
UpsampleRaises(currImg) == Rank(currImg) = 3 /\ currImg.shape[3] \notin {1, 3}

\* upImg = np.zeros((2*H, 2*W, 3), dtype); for (io, jo) in ((0,0),(0,1),(1,0),(1,1)):
\*     upImg[io::2, jo::2, :] = currImg
Upsample(currImg, dtype) ==
    LET z == Zeros(dtype, <<2 * Height(currImg), 2 * Width(currImg), 3>>,
                   IF dtype = "uint8" THEN 0 ELSE currImg.exp)
    IN PhaseAssign(PhaseAssign(PhaseAssign(PhaseAssign(z, 0, 0, currImg),
                                           0, 1, currImg), 1, 0, currImg), 1, 1, currImg)

\* a + sign * b, sample by sample, for arrays of one shape: uint8 with uint8 stays
\* uint8 and wraps modulo 256, anything else is float64
Combine(a, b, sign) ==
    IF a.dtype = "uint8" /\ b.dtype = "uint8"
    THEN [a EXCEPT !.data = [k \in 1..Len(a.data) |-> (a.data[k] + (sign * b.data[k])) % 256]]
    ELSE LET e == Max(a.exp, b.exp)
             x == Lift(a, e)
             y == Lift(b, e)
         IN Norm([dtype |-> "float64", shape |-> a.shape, exp |-> e,
                  data |-> [k \in 1..Len(x) |-> x[k] + (sign * y[k])]])

\* gau_pyr[currLev-1] - upImg
Subtract(a, b) == Combine(a, b, -1)

\* variant: copy_pyr[currLev-1] = upImg, the level overwritten instead of added to
AccumulateAsAssign(a, b) == AsType(b, a.dtype)

\* copy_pyr[currLev-1] += upImg : the sum, stored in a's own buffer and dtype
Accumulate(a, b) == Combine(a, b, 1)

\* a += b raises (UFuncTypeError) when the float64 sum cannot be stored in a uint8 buffer
AccumulateRaises(a, b) == a.dtype = "uint8" /\ b.dtype # "uint8"

\* copy_pyr[lev] *= weights[lev], the weight a float given in halves
Scale(a, w) ==
    Norm([a EXCEPT !.exp = a.exp + 1, !.data = [k \in 1..Len(a.data) |-> a.data[k] * w]])

\* a *= w, w a float, raises UFuncTypeError on a uint8 buffer (casting rule 'same_kind')
ScaleRaises(a) == a.dtype = "uint8"

\* blurImg[::2, ::2, :]
Decimate(a) ==
    LET shape == <<(Height(a) + 1) \div 2, (Width(a) + 1) \div 2, a.shape[3]>>
        px(i, j, c) == At(a, 2 * i, 2 * j, c)
    IN Norm(MkArr(a.dtype, shape, a.exp,
             [s \in 1..Size(shape) |->
                 px(RowOf(s, shape), ColOf(s, shape), ChanOf(s, shape))]))

\* variant: the width left out of the precondition
AssertHeightOnly(h, w, f) == h % f = 0

\* assert h % f == 0 and w % f == 0
AssertHolds(h, w, f) == h % f = 0 /\ w % f = 0

\* variant: no copy, copy_pyr names the caller's own buffers
AliasList(h, ids) == [heap |-> h, ids |-> ids]

\* copy.deepcopy(pyr): a new list of new buffers holding the same samples
deepcopy(h, ids) ==
    [heap |-> h \o [k \in 1..Len(ids) |-> h[ids[k]]],
     ids |-> [k \in 1..Len(ids) |-> Len(h) + k]]

(***************************************************************************)
(* Spec: the caller builds a pyramid of an image, then reconstructs from   *)
(* it or writes into a level it was handed.                                *)
(***************************************************************************)
\* the images handed to construct_laplacian: H x W x 3 with sides that are and are
\* not divisible, and rank-2, one-channel and four-channel images
PyramidShapes == {<<2, 2, 3>>, <<4, 4, 3>>, <<8, 8, 3>>, <<4, 2, 3>>, <<2, 4, 3>>,
                  <<6, 4, 3>>, <<3, 3, 3>>, <<4, 4>>, <<4, 4, 1>>, <<4, 4, 4>>}

LevelChoices == 1..4

\* one weight per level: every level at 1.0 but one
WeightChoices(n) ==
    {[k \in 1..n |-> IF k = sel THEN w ELSE 2] : sel \in 1..n, w \in 0..MaxWeight}

Init ==
    /\ pc = "start"
    /\ raised = "none"
    /\ \E dt \in DTypes, sh \in PyramidShapes, s \in 0..MaxSeed :
          heap = <<MkImage(dt, sh, s)>>
    /\ img = 1
    /\ orig = heap[1]
    /\ kernel = blur_1d
    /\ out_img = 0
    /\ levels \in LevelChoices
    /\ gau_pyr = <<>>
    /\ lap_pyr = <<>>
    /\ currLev = 0
    /\ pyr = <<>>
    /\ weights = None
    /\ copy_pyr = <<>>
    /\ ret = 0
    /\ before = NoPyramid
    /\ written = FALSE
    /\ hyb = NoFrame

Raise(e) ==
    /\ pc' = "raised"
    /\ raised' = e

\* construct_laplacian, lines 167-173: the precondition, then gau_pyr = [img]
ConstructAssert ==
    /\ pc = "start"
    /\ IF AssertHolds(Height(heap[img]), Width(heap[img]), Pow2(levels - 1))
       THEN /\ gau_pyr' = <<img>>
            /\ currLev' = 1
            /\ pc' = "gauss"
            /\ UNCHANGED raised
       ELSE /\ Raise("AssertionError")
            /\ UNCHANGED <<gau_pyr, currLev>>
    /\ UNCHANGED <<heap, img, orig, kernel, out_img, levels, lap_pyr, pyr, weights,
                   copy_pyr, ret, before, written, hyb>>

\* one pass of the loop of lines 176-179
GaussStep ==
    /\ pc = "gauss"
    /\ currLev < levels
    /\ LET prev == heap[gau_pyr[currLev]]
       IN IF CorrRaises(prev) \/ Rank(prev) = 2
          THEN /\ Raise("IndexError")
               /\ UNCHANGED <<heap, gau_pyr, currLev>>
          ELSE /\ heap' = Append(heap, Decimate(separable_filter(prev, blur_1d)))
               /\ gau_pyr' = Append(gau_pyr, Len(heap) + 1)
               /\ currLev' = currLev + 1
               /\ UNCHANGED <<pc, raised>>
    /\ UNCHANGED <<img, orig, kernel, out_img, levels, lap_pyr, pyr, weights,
                   copy_pyr, ret, before, written, hyb>>

\* lines 181-182: lap_pyr = [gau_pyr[levels-1]]
LaplaceInit ==
    /\ pc = "gauss"
    /\ currLev = levels
    /\ lap_pyr' = <<gau_pyr[levels]>>
    /\ currLev' = levels - 1
    /\ pc' = "laplace"
    /\ UNCHANGED <<raised, heap, img, orig, kernel, out_img, levels, gau_pyr, pyr,
                   weights, copy_pyr, ret, before, written, hyb>>

\* one pass of the loop of lines 185-191
LaplaceStep ==
    /\ pc = "laplace"
    /\ currLev >= 1
    /\ LET currImg == heap[gau_pyr[currLev + 1]]
           finer == heap[gau_pyr[currLev]]
       IN IF UpsampleRaises(currImg)
             \/ finer.shape # <<2 * Height(currImg), 2 * Width(currImg), 3>>
          THEN /\ Raise("ValueError")
               /\ UNCHANGED <<heap, lap_pyr, currLev>>
          ELSE /\ heap' = Append(heap, Subtract(finer, Upsample(currImg, heap[img].dtype)))
               /\ lap_pyr' = <<Len(heap) + 1>> \o lap_pyr
               /\ currLev' = currLev - 1
               /\ UNCHANGED <<pc, raised>>
    /\ UNCHANGED <<img, orig, kernel, out_img, levels, gau_pyr, pyr, weights,
                   copy_pyr, ret, before, written, hyb>>

\* line 193: return lap_pyr
ConstructReturn ==
    /\ pc = "laplace"
    /\ currLev = 0
    /\ pyr' = lap_pyr
    /\ gau_pyr' = <<>>
    /\ lap_pyr' = <<>>
    /\ pc' = "idle"
    /\ UNCHANGED <<raised, heap, img, orig, kernel, out_img, levels, currLev, weights,
                   copy_pyr, ret, before, written, hyb>>

\* the caller overwrites a level it was handed, in place: pyr[k][...] = 0
CallerWrite ==
    /\ pc \in {"idle", "returned"}
    /\ ~ written
    /\ \E k \in 1..Len(pyr) :
          heap' = [heap EXCEPT ![pyr[k]].data = [t \in 1..Len(heap[pyr[k]].data) |-> 0],
                               ![pyr[k]].exp = 0]
    /\ written' = TRUE
    /\ UNCHANGED <<pc, raised, img, orig, kernel, out_img, levels, gau_pyr, lap_pyr,
                   currLev, pyr, weights, copy_pyr, ret, before>>
    /\ UNCHANGED hyb

\* reconstruct_laplacian(pyr, weights), lines 206-211: the deep copy (finalImg, which
\* nothing reads, is left out)
CallReconstruct ==
    /\ pc = "idle"
    /\ ~ written
    /\ weights' \in {None} \cup WeightChoices(Len(pyr))
    /\ LET c == deepcopy(heap, pyr)
       IN /\ heap' = c.heap
          /\ copy_pyr' = c.ids
    /\ before' = [ids |-> pyr, samples |-> [k \in 1..Len(pyr) |-> heap[pyr[k]]]]
    /\ currLev' = IF weights' = None THEN Len(pyr) - 1 ELSE 0
    /\ pc' = IF weights' = None THEN "accumulate" ELSE "scale"
    /\ UNCHANGED <<raised, img, orig, kernel, out_img, levels, gau_pyr, lap_pyr, pyr,
                   ret, written, hyb>>

\* one pass of the loop of lines 223-224; after the last, the second loop starts
ScaleStep ==
    /\ pc = "scale"
    /\ currLev < Len(copy_pyr)
    /\ LET lev == copy_pyr[currLev + 1]
       IN IF ScaleRaises(heap[lev])
          THEN /\ Raise("UFuncTypeError")
               /\ UNCHANGED <<heap, currLev>>
          ELSE /\ heap' = [heap EXCEPT ![lev] = Scale(heap[lev], weights[currLev + 1])]
               /\ currLev' = IF currLev + 1 = Len(copy_pyr) THEN Len(copy_pyr) - 1
                             ELSE currLev + 1
               /\ pc' = IF currLev + 1 = Len(copy_pyr) THEN "accumulate" ELSE "scale"
               /\ UNCHANGED raised
    /\ UNCHANGED <<img, orig, kernel, out_img, levels, gau_pyr, lap_pyr, pyr, weights,
                   copy_pyr, ret, before, written, hyb>>

\* one pass of the loop of lines 214-220 (weights None) or 226-232 (weights given)
AccumulateStep ==
    /\ pc = "accumulate"
    /\ currLev >= 1
    /\ LET currImg == heap[copy_pyr[currLev + 1]]
           finer == heap[copy_pyr[currLev]]
       IN IF UpsampleRaises(currImg)
             \/ finer.shape # <<2 * Height(currImg), 2 * Width(currImg), 3>>
          THEN /\ Raise("ValueError")
               /\ UNCHANGED <<heap, currLev>>
          ELSE LET upImg == Upsample(currImg, heap[copy_pyr[1]].dtype)
               IN IF AccumulateRaises(finer, upImg)
                  THEN /\ Raise("UFuncTypeError")
                       /\ UNCHANGED <<heap, currLev>>
                  ELSE /\ heap' = [heap EXCEPT ![copy_pyr[currLev]] = Accumulate(finer, upImg)]
                       /\ currLev' = currLev - 1
                       /\ UNCHANGED <<pc, raised>>
    /\ UNCHANGED <<img, orig, kernel, out_img, levels, gau_pyr, lap_pyr, pyr, weights,
                   copy_pyr, ret, before, written, hyb>>

\* line 234: return copy_pyr[0]
ReconstructReturn ==
    /\ pc = "accumulate"
    /\ currLev = 0
    /\ ret' = copy_pyr[1]
    /\ pc' = "returned"
    /\ UNCHANGED <<raised, heap, img, orig, kernel, out_img, levels, gau_pyr, lap_pyr,
                   currLev, pyr, weights, copy_pyr, before, written, hyb>>

Next ==
    \/ ConstructAssert
    \/ GaussStep
    \/ LaplaceInit
    \/ LaplaceStep
    \/ ConstructReturn
    \/ CallerWrite
    \/ CallReconstruct
    \/ ScaleStep
    \/ AccumulateStep
    \/ ReconstructReturn

Spec == Init /\ [][Next]_vars

(***************************************************************************)
(* create_hybrid_image.  Inside it a float image is a record [arr, q]: the *)
(* dyadic array arr divided by 255^q, since x / 255.0 is not dyadic.       *)
(* Filtering and scaling are linear and act on arr.  sigma is the one      *)
(* value whose Gaussian is dyadic, exp(-1/(2 sigma^2)) = 1/2, for sizes 1  *)
(* and 3; the rounding of astype(np.float32) is not modelled.              *)
(***************************************************************************)
RECURSIVE Log2(_)
Log2(n) == IF n <= 1 THEN 0 ELSE 1 + Log2(n \div 2)

\* gaussian_blur_kernel_2d(sigma, height, width) for exp(-1/(2 sigma^2)) = 1/2:
\* filter[y,x] is proportional to 2^-((x-half_width)^2 + (y-half_height)^2), and
\* the filter is divided by its sum (1, 4 or 16 times the centre for sizes 1 and 3)
gaussian_blur_kernel_2d(height, width) ==
    LET half_height == height \div 2
        half_width == width \div 2
        top == (half_height * half_height) + (half_width * half_width)
        filter == [t \in 1..(height * width) |->
                     LET y == (t - 1) \div width
                         x == (t - 1) % width
                     IN Pow2(top - (((x - half_width) * (x - half_width))
                                    + ((y - half_height) * (y - half_height))))]
    IN [dtype |-> "float64", shape |-> <<height, width>>,
        exp |-> Log2(SumSeq(filter, height * width)), data |-> filter]

low_pass(a, size) == convolve_2d(a, gaussian_blur_kernel_2d(size, size))

high_pass(a, size) == Subtract(a, convolve_2d(a, gaussian_blur_kernel_2d(size, size)))

\* str.lower() on the spellings the caller uses
Lower(str) == IF str \in {"low", "Low", "LOW"} THEN "low" ELSE "high"

\* img.astype(np.float32) / 255.0
Div255(x) == [arr |-> AsType(x.arr, "float64"), q |-> x.q + 1]

\* lines 136-138: the test reads img1's dtype alone and divides both images
Normalize(img1, img2) ==
    IF img1.arr.dtype = "uint8"
    THEN [img1 |-> Div255(img1), img2 |-> Div255(img2)]
    ELSE [img1 |-> img1, img2 |-> img2]

\* lines 140-148: low_pass or high_pass by the mode
Filtered(x, high_low, size) ==
    [x EXCEPT !.arr = IF high_low = "low" THEN low_pass(x.arr, size)
                      ELSE high_pass(x.arr, size)]

\* x in units of 1/255^q, for q >= x.q
Times255(x, q) ==
    IF q = x.q THEN x
    ELSE [arr |-> [x.arr EXCEPT !.data = [k \in 1..Len(x.arr.data) |-> x.arr.data[k] * 255]],
          q |-> x.q + 1]

\* lines 150-152: img1 *= 2 * (1 - mixin_ratio); img2 *= 2 * mixin_ratio; img1 + img2
\* (the ratio r is given in halves)
Mixed(img1, img2, r) ==
    LET q == Max(img1.q, img2.q)
        a == Scale(Times255(img1, q).arr, 2 * (2 - r))
        b == Scale(Times255(img2, q).arr, 2 * r)
    IN [arr |-> Combine(a, b, 1), q |-> q]

\* line 153: (hybrid_img * 255).clip(0, 255).astype(np.uint8)
Quantized(x) ==
    LET y == IF x.q = 0 THEN Times255(x, 1).arr ELSE x.arr
        top == 255 * Pow2(y.exp)
        clip(v) == IF v < 0 THEN 0 ELSE IF v > top THEN top ELSE v
    IN [dtype |-> "uint8", shape |-> y.shape, exp |-> 0,
        data |-> [k \in 1..Len(y.data) |-> CastU8(clip(y.data[k]), y.exp)]]

HybridShapes == {<<2, 2>>, <<2, 2, 3>>}

InitHybrid ==
    /\ pc = "start"
    /\ raised = "none"
    /\ \E dt1 \in DTypes, dt2 \in DTypes, sh \in HybridShapes, s \in 0..MaxSeed :
          heap = <<MkImage(dt1, sh, s), MkImage(dt2, sh, MaxSeed - s)>>
    /\ img = 1
    /\ orig = heap[1]
    /\ kernel = blur_1d
    /\ out_img = 0
    /\ levels = 0
    /\ gau_pyr = <<>>
    /\ lap_pyr = <<>>
    /\ currLev = 0
    /\ pyr = <<>>
    /\ weights = None
    /\ copy_pyr = <<>>
    /\ ret = 0
    /\ before = NoPyramid
    /\ written = FALSE
    /\ \E m1 \in {"low", "High"}, m2 \in {"LOW", "high"}, z1 \in {1, 3}, z2 \in {1, 3},
          r \in 0..2 :
          hyb = [img1 |-> [arr |-> heap[1], q |-> 0], img2 |-> [arr |-> heap[2], q |-> 0],
                 high_low1 |-> m1, high_low2 |-> m2, size1 |-> z1, size2 |-> z2,
                 mixin_ratio |-> r]

\* lines 133-138
HybridNormalize ==
    /\ pc = "start"
    /\ LET n == Normalize(hyb.img1, hyb.img2)
       IN hyb' = [hyb EXCEPT !.high_low1 = Lower(hyb.high_low1),
                             !.high_low2 = Lower(hyb.high_low2),
                             !.img1 = n.img1, !.img2 = n.img2]
    /\ pc' = "normalized"
    /\ UNCHANGED <<raised, heap, img, orig, kernel, out_img, levels, gau_pyr, lap_pyr,
                   currLev, pyr, weights, copy_pyr, ret, before, written>>

\* lines 140-143
HybridFilter1 ==
    /\ pc = "normalized"
    /\ hyb' = [hyb EXCEPT !.img1 = Filtered(hyb.img1, hyb.high_low1, hyb.size1)]
    /\ pc' = "filtered1"
    /\ UNCHANGED <<raised, heap, img, orig, kernel, out_img, levels, gau_pyr, lap_pyr,
                   currLev, pyr, weights, copy_pyr, ret, before, written>>

\* lines 145-148
HybridFilter2 ==
    /\ pc = "filtered1"
    /\ hyb' = [hyb EXCEPT !.img2 = Filtered(hyb.img2, hyb.high_low2, hyb.size2)]
    /\ pc' = "filtered2"
    /\ UNCHANGED <<raised, heap, img, orig, kernel, out_img, levels, gau_pyr, lap_pyr,
                   currLev, pyr, weights, copy_pyr, ret, before, written>>

\* lines 150-153
HybridReturn ==
    /\ pc = "filtered2"
    /\ heap' = Append(heap, Quantized(Mixed(hyb.img1, hyb.img2, hyb.mixin_ratio)))
    /\ out_img' = Len(heap) + 1
    /\ pc' = "hybrid"
    /\ UNCHANGED <<raised, img, orig, kernel, levels, gau_pyr, lap_pyr,
                   currLev, pyr, weights, copy_pyr, ret, before, written, hyb>>

NextHybrid == HybridNormalize \/ HybridFilter1 \/ HybridFilter2 \/ HybridReturn

SpecHybrid == InitHybrid /\ [][NextHybrid]_vars

\* the image as create_hybrid_image should filter it: divided by 255 exactly when
\* it holds uint8 samples
NormalizedByOwnType(a) ==
    IF a.dtype = "uint8" THEN Div255([arr |-> a, q |-> 0]) ELSE [arr |-> a, q |-> 0]

\* C8: each input is divided by 255 before filtering exactly when that input holds
\* uint8 samples, image1 and image2 independently, whatever the other's type
C8_NormalizedByOwnType ==
    pc = "normalized" =>
        /\ hyb.img1 = NormalizedByOwnType(heap[1])
        /\ hyb.img2 = NormalizedByOwnType(heap[2])

(***************************************************************************)
(* Claims about the pyramid.                                               *)
(***************************************************************************)
\* H and W are each divisible by 2^(lv-1)
Divisible(a, lv) == Height(a) % Pow2(lv - 1) = 0 /\ Width(a) % Pow2(lv - 1) = 0

IsRGB(a) == Rank(a) = 3 /\ a.shape[3] = 3

\* equal shape and equal samples, whatever the dtype
SameSamples(x, y) == x.shape = y.shape /\ x.exp = y.exp /\ x.data = y.data

\* C1: for an H x W x 3 image and levels in 1..4 with H and W divisible by
\* 2^(levels-1), construct_laplacian then reconstruct_laplacian without weights
\* runs to its return and returns the image: same shape, equal sample for sample
C1_RoundTrip ==
    (IsRGB(orig) /\ Divisible(orig, levels) /\ weights = None) =>
        /\ raised = "none"
        /\ pc = "returned" => SameSamples(heap[ret], orig)

C1_Witness ==
    /\ pc = "returned"
    /\ weights = None
    /\ levels = 4
    /\ orig.dtype = "uint8"
    /\ \E k \in 1..Len(orig.data) : heap[pyr[1]].data[k] > orig.data[k]
    /\ SameSamples(heap[ret], orig)

\* C2: from the call of reconstruct_laplacian to its return (or its exception),
\* with or without weights, the caller's list holds the same buffers and every
\* buffer the samples it held at the call; only the deep copy is scaled and added to
C2_CallerPyramidUnchanged ==
    (before.ids # <<>> /\ ~ written) =>
        /\ pyr = before.ids
        /\ \A k \in 1..Len(pyr) : heap[pyr[k]] = before.samples[k]

C2_Witness ==
    /\ pc = "returned"
    /\ weights # None
    /\ Len(pyr) = 3
    /\ heap[copy_pyr[1]] # before.samples[1]
    /\ heap[copy_pyr[3]] # before.samples[3]
    /\ heap[pyr[1]] = before.samples[1]

\* C3: when H or W is not divisible by 2^(levels-1) construct_laplacian ends in an
\* AssertionError with no array computed and no list built or returned; when both
\* are divisible the assertion does not fire
C3_FailFast ==
    /\ ~ Divisible(orig, levels) =>
          /\ pc \in {"start", "raised"}
          /\ pc = "raised" => raised = "AssertionError"
          /\ Len(heap) = 1
          /\ gau_pyr = <<>> /\ lap_pyr = <<>> /\ pyr = <<>>
    /\ Divisible(orig, levels) => raised # "AssertionError"

C3_Witness ==
    /\ pc = "raised"
    /\ raised = "AssertionError"
    /\ orig.shape = <<4, 2, 3>>
    /\ levels = 3
    /\ Len(heap) = 1

\* C5: construct_laplacian never hands back the caller's image: no level of the
\* returned list is the image's buffer, so whatever is written into the levels
\* afterwards the image holds its original samples
C5_NeverAliases ==
    pc \in {"idle", "returned"} =>
        /\ \A k \in 1..Len(pyr) : pyr[k] # img
        /\ heap[img] = orig

\* C6: for an image H x W or H x W x C and levels >= 1 with H and W divisible by
\* 2^(levels-1), construct_laplacian returns `levels` images, element i of height
\* H/2^i and width W/2^i and of the input's rank and channel count
C6_PyramidShape ==
    Divisible(orig, levels) =>
        /\ raised \notin {"AssertionError", "IndexError", "ValueError"}
        /\ pc = "idle" =>
              /\ Len(pyr) = levels
              /\ \A k \in 1..Len(pyr) :
                    /\ Rank(heap[pyr[k]]) = Rank(orig)
                    /\ Height(heap[pyr[k]]) * Pow2(k - 1) = Height(orig)
                    /\ Width(heap[pyr[k]]) * Pow2(k - 1) = Width(orig)
                    /\ Chans(heap[pyr[k]]) = Chans(orig)

\* weights[k] * pyr[k]: a new float64 array per level
ScaledPyramid(samples, w) ==
    [k \in 1..Len(samples) |-> Scale(AsType(samples[k], "float64"), w[k])]

RECURSIVE Reconstructed(_, _)
\* level k of reconstruct_laplacian(arrs) without weights, once the loop has passed it
Reconstructed(arrs, k) ==
    IF k = Len(arrs) THEN arrs[k]
    ELSE Accumulate(arrs[k], Upsample(Reconstructed(arrs, k + 1), arrs[1].dtype))

\* C7: reconstruct_laplacian(pyr, weights), one float per level, returns what
\* reconstruct_laplacian(pyr') returns without weights, pyr'[k] = weights[k] * pyr[k]
C7_WeightedIsScaled ==
    weights # None =>
        /\ raised # "UFuncTypeError"
        /\ pc = "returned" =>
              SameSamples(heap[ret], Reconstructed(ScaledPyramid(before.samples, weights), 1))

RECURSIVE RefGauss(_, _)
\* G[k]: G[0] the image, G[k] the separable 5-tap blur of G[k-1], every second
\* row and column kept from index 0
RefGauss(a, k) ==
    IF k = 0 THEN AsType(a, "float64")
    ELSE Decimate(separable_filter(RefGauss(a, k - 1), blur_1d))

\* g - up(x), in exact signed arithmetic, up(x)[i,j,c] = x[i div 2, j div 2, c]
RefDifference(g, x) ==
    LET e == Max(g.exp, x.exp)
        d(i, j, c) == (At(g, i, j, c) * Pow2(e - g.exp))
                        - (At(x, i \div 2, j \div 2, c) * Pow2(e - x.exp))
    IN Norm(MkArr("float64", g.shape, e,
             [s \in 1..Size(g.shape) |->
                 d(RowOf(s, g.shape), ColOf(s, g.shape), ChanOf(s, g.shape))]))

\* element k (from 0) of the Laplacian pyramid of `a` with n levels, as section 4.5 defines it
RefLaplacian(a, n, k) ==
    IF k = n - 1 THEN RefGauss(a, k)
    ELSE RefDifference(RefGauss(a, k), RefGauss(a, k + 1))

\* C9: the last returned element is G[levels-1] and element k < levels-1 is
\* G[k] - up(G[k+1]) as an exact signed difference, for float and for uint8 images
C9_LaplacianLevels ==
    (pc = "idle" /\ ~ written) =>
        \A k \in 1..Len(pyr) : SameSamples(heap[pyr[k]], RefLaplacian(orig, Len(pyr), k - 1))

(***************************************************************************)
(* Claims about the filters.                                               *)
(***************************************************************************)
\* sample [y,x,c] of the image padded with zeros: pm rows above, pn columns left
Padded(a, pm, pn, y, x, c) ==
    IF y >= pm /\ y < pm + Height(a) /\ x >= pn /\ x < pn + Width(a)
    THEN At(a, y - pm, x - pn, c) ELSE 0

RECURSIVE RowSum(_, _, _, _, _, _, _)
\* sum over j in 0..n-1 of k[i,j] * P[h+i, w+j, c]
RowSum(a, k, h, w, c, i, n) ==
    IF n = 0 THEN 0
    ELSE k.data[(i * k.shape[2]) + n]
           * Padded(a, k.shape[1] \div 2, k.shape[2] \div 2, h + i, w + n - 1, c)
         + RowSum(a, k, h, w, c, i, n - 1)

RECURSIVE RefSum(_, _, _, _, _, _)
\* sum over i in 0..m-1, j in 0..n-1 of k[i,j] * P[h+i, w+j, c]
RefSum(a, k, h, w, c, m) ==
    IF m = 0 THEN 0
    ELSE RowSum(a, k, h, w, c, m - 1, k.shape[2]) + RefSum(a, k, h, w, c, m - 1)

\* the zero-padded reference of section 4.1, every channel alike
RefCorrelation(a, k) ==
    LET px(h, w, c) == RefSum(a, k, h, w, c, k.shape[1])
    IN Norm(MkArr("float64", a.shape, a.exp + k.exp,
             [s \in 1..Size(a.shape) |->
                 px(RowOf(s, a.shape), ColOf(s, a.shape), ChanOf(s, a.shape))]))

RGBOrGray(a) == Rank(a) = 2 \/ a.shape[3] = 3

\* C4 as stated: for every rank-2 image and every rank-3 image of any channel
\* count, cross_correlation_2d returns the zero-padded reference, in the input's shape
C4_AnyChannels ==
    /\ pc = "raised" => ~ CorrRaises(heap[img])
    /\ pc = "correlated" => heap[out_img] = RefCorrelation(heap[img], kernel)

\* C4, amended: for every rank-2 image and every rank-3 image of exactly three
\* channels, cross_correlation_2d returns (it does not raise) an array of the input's
\* shape whose every sample is the zero-padded reference sum, the kernel not flipped
C4_RGBOrGray ==
    RGBOrGray(heap[img]) =>
        /\ pc # "raised"
        /\ pc = "correlated" =>
              /\ heap[out_img].shape = heap[img].shape
              /\ heap[out_img] = RefCorrelation(heap[img], kernel)

C4_Witness ==
    /\ pc = "correlated"
    /\ heap[img].shape = <<3, 2, 3>>
    /\ kernel.shape = <<3, 5>>
    /\ heap[out_img] # convolve_2d(heap[img], kernel)

\* the n x n kernel K[i,j] = k[0,i] * k[0,j] of a 1 x n row kernel k
Outer(k) ==
    LET n == k.shape[2]
    IN [dtype |-> "float64", shape |-> <<n, n>>, exp |-> 2 * k.exp,
        data |-> [t \in 1..(n * n) |-> k.data[((t - 1) \div n) + 1] * k.data[((t - 1) % n) + 1]]]

\* C10: for a 1 x n row kernel k, n odd, separable_filter(image, k) equals
\* cross_correlation_2d(image, K), K the outer product of k with itself, at every
\* pixel, those at the zero-padded border included
C10_SeparableIsOuter ==
    (pc = "separated" /\ kernel.shape[1] = 1) =>
        heap[out_img] = cross_correlation_2d(heap[img], Outer(kernel))

C10_Witness ==
    /\ pc = "separated"
    /\ kernel = blur_1d
    /\ heap[img].shape = <<2, 2, 3>>
    /\ heap[out_img] # cross_correlation_2d(heap[img], kernel)

====
